---- MODULE Spec2Model ----
(***************************************************************************)
(* A model of the two MessageBus clients of python_queue_sender:          *)
(*   "azure"  src/common/message_bus.py      (Azure Service Bus)           *)
(*   "pika"   src/common/old_message_bus.py  (RabbitMQ through pika)       *)
(* One client instance, one thread of control.  The broker and the vendor  *)
(* library are the environment: a library call on an open connection      *)
(* either succeeds or fails at the transport, and a publish may fail      *)
(* before or after the broker accepted the message.                        *)
(***************************************************************************)
EXTENDS Integers, Sequences, FiniteSets, TLC

\* ------------------------------------------------------------------ bounds
\* Connections the environment can hand out over one run.
MaxConns == 4
\* Transport faults (and failed connects) the environment injects over one run.
MaxFaults == 3
\* Message copies the broker accepts over one run.
MaxTokens == 3
\* Messages of other producers on the queue when the consumer starts.
MaxPreload == 2
\* Server-named queues the broker creates over one run.
MaxGen == 2
\* Iterations of the producer loop of main.py over one run.
MaxSends == 3

Variants == {"azure", "pika"}
\* Queue arguments a caller passes: the empty name and one real queue.
Queues == {"", "Q"}
ConnIds == 1..MaxConns

VARIABLES
    variant,    \* which of the two MessageBus classes this client is
    handle,     \* self.servicebus_client / self.channel: 0 is None
    conn,       \* library side: the state of every connection ever created
    stack,      \* the _func_wrapper frames of the call in progress
    pc,         \* the position of the thread of control
    call,       \* the public call in progress, or the last one made
    result,     \* how the last public call ended
    att1,       \* how the first attempt of the outermost wrapper ended
    att2,       \* how its retry ended
    nConnect,   \* connect() calls made inside the current public call
    nBody,      \* entries of the body of the current public call
    nMqd,       \* entries of the body of make_queue_durable in that call
    accepted,   \* copies of the current send's message the broker accepted
    lateAcc,    \* those of them accepted by a publish that then raised
    faults,     \* transport faults and failed connects injected so far
    nTok,       \* message copies accepted by the broker so far
    queue,      \* the broker's queue "Q": accepted copies, oldest first
    unacked,    \* delivered and not settled: [c, tok, rcv]
    dlq,        \* copies moved to the dead-letter queue
    dropped,    \* copies the broker discarded
    declared,   \* the queues declared on the broker: names, and server-named
    dead,       \* the delivery handle of the caller that went out of use last
    cur,        \* the delivery start_consuming is handling, or handled last
    okSet,      \* copies on which the handler returned successfully
    stopped,    \* stop() closed the connection, no connect() by the user since
    prev,       \* the call before the current one, a make_queue_durable
                \* that returned normally, or none
    counter,    \* main.py: the global counter
    mainpc,     \* main.py: the position of main_loop
    message_body, \* main.py: the body send_json_message built last
    nSends      \* main.py: the send calls main_loop has made

vars == <<variant, handle, conn, stack, pc, call, result, att1, att2,
          nConnect, nBody, nMqd, accepted, lateAcc, faults, nTok, queue,
          unacked, dlq, dropped, declared, dead, cur, okSet, stopped, prev,
          counter, mainpc, message_body, nSends>>

\* The broker's side, and the ghost record of deliveries.
broker == <<queue, unacked, dlq, dropped, declared>>
consumer == <<dead, cur, okSet>>

\* The producer program main.py.
main == <<counter, mainpc, message_body, nSends>>

\* ----------------------------------------------------------------- helpers
NoCall ==
    [fn |-> "none", q |-> "", c |-> 0, tok |-> 0, requeue |-> FALSE,
     stale |-> FALSE]

NoDelivery == [tok |-> 0, h |-> "none", acks |-> 0, rejects |-> 0]

NoQueues == [names |-> {}, gen |-> 0]

NoPrev == [fn |-> "none", q |-> ""]

\* f"object {counter}" and json.dumps({"id": ...}): the text of the id, and
\* the JSON object that carries it.
FormatId(n) == <<"object", n>>
JsonDumps(id) == [id |-> id]
NoBody == [id |-> <<>>]

\* The connections the library still holds open.
OpenConns == {c \in ConnIds : conn[c] = "open"}
\* The connections created so far.
UsedConns == {c \in ConnIds : conn[c] # "unused"}

\* What the library sees behind a handle.
Status(h) == IF h = 0 THEN "none" ELSE conn[h]

\* The outcomes of one library call made through handle h:
\*   None     -> AttributeError                       ("other")
\*   closed   -> the library refuses a closed handle   ("other")
\*   lost     -> the stream is gone                    ("transport")
\*   open     -> success, or a fresh transport fault
CallOutcomes(h) ==
    CASE Status(h) = "none"   -> {"other"}
      [] Status(h) = "closed" -> {"other"}
      [] Status(h) = "lost"   -> {"transport"}
      [] Status(h) = "open"   ->
            {"ok"} \cup (IF faults < MaxFaults THEN {"transport"} ELSE {})
      [] OTHER -> {"other"}

\* A call through h with outcome o is the one that loses the connection.
Lost(h, o) == o = "transport" /\ Status(h) = "open"

\* The library state after a call through h ended with outcome o.
ConnAfter(h, o) == IF Lost(h, o) THEN [conn EXCEPT ![h] = "lost"] ELSE conn

FaultsAfter(h, o) == IF Lost(h, o) THEN faults + 1 ELSE faults

OnConn(U, c) == {u \in U : u.c = c}
OnLoop(U) == {u \in U : u.rcv = "loop"}
Toks(U) == {u.tok : u \in U}
Locked(c, tok) == \E u \in unacked : u.c = c /\ u.tok = tok

\* The delivery handles the caller holds: pika hands the channel and the
\* delivery tag to the handler; the azure loop keeps its receiver to itself.
HandleOf(u) == [c |-> u.c, tok |-> u.tok]
CallerHeld(U) == {HandleOf(u) : u \in {v \in U : v.rcv = "caller"}}

\* The handle that went out of use when the unacknowledged set became U.
DeadAfter(U) ==
    LET gone == CallerHeld(unacked) \ CallerHeld(U) IN
    IF gone = {} THEN dead
    ELSE {CHOOSE h \in gone : \A g \in gone : h.tok <= g.tok}

\* The handles a caller can pass to acknowledge_message and
\* not_acknowledge_message.
Handles == CallerHeld(unacked) \cup dead

RECURSIVE SortedSeq(_)
SortedSeq(S) ==
    IF S = {} THEN <<>>
    ELSE LET m == CHOOSE x \in S : \A y \in S : x <= y
         IN  <<m>> \o SortedSeq(S \ {m})

\* The broker returns to the queue what was delivered over a connection
\* that went away.
UnackedAfter(h, o) ==
    IF Lost(h, o) THEN unacked \ OnConn(unacked, h) ELSE unacked

QueueAfter(h, o) ==
    IF Lost(h, o) THEN SortedSeq(Toks(OnConn(unacked, h))) \o queue ELSE queue

\* except Exception (azure) against except exceptions.StreamLostError (pika).
Catches(kind) == variant = "azure" \/ kind = "transport"

Top == stack[Len(stack)]

\* The first statement of each wrapped function's body.
BodyStart(fn) ==
    CASE fn = "send"    -> "send_body"
      [] fn = "mqd"     -> "mqd_body"
      [] fn = "consume" -> "cons_body"
      [] fn = "ack"     -> "ack_body"
      [] fn = "nack"    -> "nack_body"
      [] OTHER          -> "idle"

\* Where the caller of make_queue_durable goes on after it returned.
AfterMqd(fn) ==
    CASE fn = "send"    -> "send_publish"
      [] fn = "consume" -> "cons_setup"
      [] OTHER          -> "idle"

\* An exception of this kind leaves the body of the top frame: the innermost
\* frame still in its try block that catches the kind runs its handler
\* (connect, then the retry); a frame in its handler or in its retry lets
\* the exception through.
\* Unwind with the retry wrapped like the first attempt (a wrapper that
\* loops): a frame in its retry catches too and reconnects again.
RECURSIVE UnwindRetryAgain(_, _)
UnwindRetryAgain(stk, kind) ==
    IF stk = <<>> THEN <<>>
    ELSE LET n == Len(stk) IN
         IF stk[n].phase \in {"try1", "try2"} /\ Catches(kind)
         THEN [stk EXCEPT ![n].phase = "except"]
         ELSE UnwindRetryAgain(SubSeq(stk, 1, n - 1), kind)

RECURSIVE Unwind(_, _)
Unwind(stk, kind) ==
    IF stk = <<>> THEN <<>>
    ELSE LET n == Len(stk) IN
         IF stk[n].phase = "try1" /\ Catches(kind)
         THEN [stk EXCEPT ![n].phase = "except"]
         ELSE Unwind(SubSeq(stk, 1, n - 1), kind)

\* What the outermost frame's first attempt and retry came to, after an
\* exception was raised with the stack stk.
Att1After(stk, kind) ==
    LET u == Unwind(stk, kind) IN
    IF stk # <<>> /\ stk[1].phase = "try1" /\ Len(u) <= 1 THEN kind ELSE att1

Att2After(stk, kind) ==
    LET u == Unwind(stk, kind) IN
    IF stk # <<>> /\ stk[1].phase = "try2" /\ u = <<>> THEN kind ELSE att2

\* Raise with the exception that no frame catches swallowed (a bare
\* "except: pass" around the retry): the call returns normally.
RaiseSwallowed(kind) ==
    LET u == Unwind(stack, kind) IN
    /\ stack' = u
    /\ att1' = Att1After(stack, kind)
    /\ att2' = Att2After(stack, kind)
    /\ IF u = <<>>
       THEN pc' = "done" /\ result' = "ok"
       ELSE pc' = "connect" /\ result' = result

\* raise: the control state after an exception of this kind left the body
\* of the top frame.
Raise(kind) ==
    LET u == Unwind(stack, kind) IN
    /\ stack' = u
    /\ att1' = Att1After(stack, kind)
    /\ att2' = Att2After(stack, kind)
    /\ IF u = <<>>
       THEN pc' = "done" /\ result' = kind
       ELSE pc' = "connect" /\ result' = result

\* return: the top frame's function returned normally.
Return ==
    LET n == Len(stack) IN
    /\ stack' = SubSeq(stack, 1, n - 1)
    /\ IF n = 1
       THEN /\ pc' = "done"
            /\ result' = "ok"
            /\ att1' = (IF stack[1].phase = "try1" THEN "ok" ELSE att1)
            /\ att2' = (IF stack[1].phase = "try2" THEN "ok" ELSE att2)
       ELSE /\ pc' = AfterMqd(stack[n - 1].fn)
            /\ UNCHANGED <<result, att1, att2>>

\* The per-call counters start again with every public call.
ResetCounters(k) ==
    /\ nConnect' = k
    /\ nBody' = 0
    /\ nMqd' = 0
    /\ accepted' = 0
    /\ lateAcc' = 0

\* A public call of a wrapped method starts: the wrapper enters its try block.
Enter(fn, q, c, tok, rq) ==
    /\ pc = "idle"
    /\ call' = [fn |-> fn, q |-> q, c |-> c, tok |-> tok, requeue |-> rq,
                stale |-> (c # 0 /\ c # handle)]
    /\ stack' = <<[fn |-> fn, phase |-> "try1"]>>
    /\ pc' = BodyStart(fn)
    /\ result' = "none"
    /\ att1' = "none"
    /\ att2' = "none"
    /\ ResetCounters(0)

\* A public call of a method that is not wrapped, ended with result r.
Direct(fn, r, k) ==
    /\ pc = "idle"
    /\ call' = [NoCall EXCEPT !.fn = fn]
    /\ result' = r
    /\ att1' = "none"
    /\ att2' = "none"
    /\ ResetCounters(k)
    /\ pc' = "done"
    /\ UNCHANGED stack

\* ------------------------------------------------------------------- state
Init ==
    /\ variant \in Variants
    /\ handle = 0
    /\ conn = [c \in ConnIds |-> "unused"]
    /\ stack = <<>>
    /\ pc = "idle"
    /\ call = NoCall
    /\ result = "none"
    /\ att1 = "none"
    /\ att2 = "none"
    /\ nConnect = 0
    /\ nBody = 0
    /\ nMqd = 0
    /\ accepted = 0
    /\ lateAcc = 0
    /\ faults = 0
    /\ nTok = 0
    /\ queue = <<>>
    /\ unacked = {}
    /\ dlq = {}
    /\ dropped = {}
    /\ declared = NoQueues
    /\ dead = {}
    /\ cur = NoDelivery
    /\ okSet = {}
    /\ stopped = FALSE
    /\ prev = NoPrev
    /\ counter = 1
    /\ mainpc = "start"
    /\ message_body = NoBody
    /\ nSends = 0

\* ----------------------------------------------------------------- connect
\* The outcomes of connect(): a new open connection; a failure before any
\* handle is assigned; in pika, a failure of basic_qos after self.channel
\* was assigned.
ConnectOutcomes ==
    (IF Cardinality(UsedConns) < MaxConns THEN {"ok"} ELSE {})
    \cup (IF faults < MaxFaults THEN {"fail_early"} ELSE {})
    \cup (IF variant = "pika" /\ faults < MaxFaults
             /\ Cardinality(UsedConns) < MaxConns
          THEN {"fail_qos"} ELSE {})

NewConn ==
    CHOOSE c \in ConnIds :
        conn[c] = "unused" /\ \A d \in ConnIds : conn[d] = "unused" => c <= d

\* The assignments of connect() for outcome o: the handle is overwritten,
\* and nothing is done to the connection it pointed to.
ConnectEffect(o) ==
    CASE o = "ok" ->
            /\ conn' = [conn EXCEPT ![NewConn] = "open"]
            /\ handle' = NewConn
            /\ faults' = faults
      [] o = "fail_qos" ->
            /\ conn' = [conn EXCEPT ![NewConn] = "lost"]
            /\ handle' = NewConn
            /\ faults' = faults + 1
      [] OTHER ->
            /\ UNCHANGED <<conn, handle>>
            /\ faults' = faults + 1

\* The kind of exception a failed connect raises.
ConnectError(o) == IF o = "fail_qos" THEN "transport" ELSE "other"

\* connect() called by the user.
UserConnect ==
    /\ \E o \in ConnectOutcomes :
        /\ ConnectEffect(o)
        /\ Direct("connect", IF o = "ok" THEN "ok" ELSE ConnectError(o), 1)
    /\ stopped' = FALSE
    /\ UNCHANGED <<variant, prev, main, nTok, broker, consumer>>

\* Reconnect with a failed connect swallowed (self.connect() wrapped in a
\* try whose except clause passes): the retry runs on whatever handle the
\* client holds.
ReconnectAnyway ==
    /\ pc = "connect"
    /\ nConnect' = nConnect + 1
    /\ \E o \in ConnectOutcomes :
        /\ ConnectEffect(o)
        /\ stack' = [stack EXCEPT ![Len(stack)].phase = "try2"]
        /\ pc' = BodyStart(Top.fn)
        /\ UNCHANGED <<result, att1, att2>>
    /\ UNCHANGED <<variant, prev, main, call, nBody, nMqd, accepted, lateAcc,
                   nTok, broker, consumer, stopped>>

\* self.connect() in the wrapper's except clause, then the retry.
Reconnect ==
    /\ pc = "connect"
    /\ nConnect' = nConnect + 1
    /\ \E o \in ConnectOutcomes :
        /\ ConnectEffect(o)
        /\ IF o = "ok"
           THEN /\ stack' = [stack EXCEPT ![Len(stack)].phase = "try2"]
                /\ pc' = BodyStart(Top.fn)
                /\ UNCHANGED <<result, att1, att2>>
           ELSE Raise(ConnectError(o))
    /\ UNCHANGED <<variant, prev, main, call, nBody, nMqd, accepted, lateAcc,
                   nTok, broker, consumer, stopped>>

\* -------------------------------------------------------------------- stop
\* How close() on the handle ends: None has no close(); pika refuses to
\* close a channel that is not open.
StopResult ==
    CASE Status(handle) = "open" -> "ok"
      [] Status(handle) = "none" -> "other"
      [] OTHER -> IF variant = "pika" THEN "other" ELSE "ok"

\* stop(): close() on the handle, not wrapped.
Stop ==
    /\ Direct("stop", StopResult, 0)
    /\ conn' = (IF Status(handle) = "open" \/
                   (Status(handle) = "lost" /\ variant = "azure")
                THEN [conn EXCEPT ![handle] = "closed"] ELSE conn)
    /\ unacked' = (IF Status(handle) = "open"
                   THEN unacked \ OnConn(unacked, handle) ELSE unacked)
    /\ queue' = (IF Status(handle) = "open"
                 THEN SortedSeq(Toks(OnConn(unacked, handle))) \o queue
                 ELSE queue)
    /\ stopped' = (IF StopResult = "ok" THEN TRUE ELSE stopped)
    /\ dead' = DeadAfter(unacked')
    /\ UNCHANGED <<variant, prev, main, handle, faults, nTok, dlq, dropped,
                   declared, cur, okSet>>

\* -------------------------------------------------------------------- send
\* The user calls send(queue, msg).
CallSend ==
    /\ nTok + 2 <= MaxTokens
    /\ \E q \in Queues : Enter("send", q, 0, 0, FALSE)
    /\ UNCHANGED <<variant, prev, main, handle, conn, faults, nTok, broker,
                   consumer, stopped>>

\* The body of send up to the call of make_queue_durable.
SendBody ==
    /\ pc = "send_body"
    /\ nBody' = nBody + 1
    /\ IF variant = "pika" /\ call.q = ""
       THEN Return
       ELSE /\ stack' = Append(stack, [fn |-> "mqd", phase |-> "try1"])
            /\ pc' = "mqd_body"
            /\ UNCHANGED <<result, att1, att2>>
    /\ UNCHANGED <<variant, prev, main, handle, conn, call, nConnect, nMqd,
                   accepted, lateAcc, faults, nTok, broker, consumer,
                   stopped>>

\* The user calls make_queue_durable(queue) with the name of a queue.
CallMakeQueueDurable ==
    /\ \E q \in Queues \ {""} : Enter("mqd", q, 0, 0, FALSE)
    /\ UNCHANGED <<variant, prev, main, handle, conn, faults, nTok, broker,
                   consumer, stopped>>

\* The user calls make_queue_durable('').
CallMakeQueueDurableEmpty ==
    /\ declared.gen < MaxGen
    /\ Enter("mqd", "", 0, 0, FALSE)
    /\ UNCHANGED <<variant, prev, main, handle, conn, faults, nTok, broker,
                   consumer, stopped>>

\* queue_declare(queue, durable=True) accepted by the broker: a queue of
\* that name exists from then on; for the empty name the broker creates a
\* queue under a name it generates, a new one with every declaration.
Declare(q) ==
    IF q = ""
    THEN [declared EXCEPT !.gen = declared.gen + 1]
    ELSE [declared EXCEPT !.names = declared.names \cup {q}]

\* make_queue_durable declaring without the name it was given
\* (queue_declare(queue='', durable=True)): every call leaves one more
\* server-named queue on the broker.
MakeQueueDurableUnnamed ==
    /\ pc = "mqd_body"
    /\ nMqd' = nMqd + 1
    /\ IF variant = "azure"
       THEN Return /\ UNCHANGED <<conn, faults, queue, unacked, declared>>
       ELSE \E o \in CallOutcomes(handle) :
                /\ conn' = ConnAfter(handle, o)
                /\ faults' = FaultsAfter(handle, o)
                /\ unacked' = UnackedAfter(handle, o)
                /\ queue' = QueueAfter(handle, o)
                /\ declared' = (IF o = "ok" THEN Declare("") ELSE declared)
                /\ IF o = "ok" THEN Return ELSE Raise(o)
    /\ UNCHANGED <<variant, prev, main, handle, call, nConnect, nBody,
                   accepted, lateAcc, nTok, dlq, dropped, cur, okSet,
                   stopped>>
    /\ dead' = DeadAfter(unacked')

\* The body of make_queue_durable: a print (azure), queue_declare (pika).
MakeQueueDurable ==
    /\ pc = "mqd_body"
    /\ nMqd' = nMqd + 1
    /\ IF variant = "azure"
       THEN Return /\ UNCHANGED <<conn, faults, queue, unacked, declared>>
       ELSE \E o \in CallOutcomes(handle) :
                /\ conn' = ConnAfter(handle, o)
                /\ faults' = FaultsAfter(handle, o)
                /\ unacked' = UnackedAfter(handle, o)
                /\ queue' = QueueAfter(handle, o)
                /\ declared' = (IF o = "ok" THEN Declare(call.q) ELSE declared)
                /\ IF o = "ok" THEN Return ELSE Raise(o)
    /\ UNCHANGED <<variant, prev, main, handle, call, nConnect, nBody,
                   accepted, lateAcc, nTok, dlq, dropped, cur, okSet,
                   stopped>>
    /\ dead' = DeadAfter(unacked')

\* The outcomes of the publish: those of any library call and, on an open
\* connection, a fault after the broker accepted the message.
PublishOutcomes(h, q) ==
    IF variant = "azure" /\ q = "" /\ Status(h) # "none" THEN {"other"}
    ELSE CallOutcomes(h) \cup
         (IF Status(h) = "open" /\ faults < MaxFaults
          THEN {"transport_after"} ELSE {})

\* get_queue_sender and send_messages (azure), basic_publish (pika).
SendPublish ==
    /\ pc = "send_publish"
    /\ \E o \in PublishOutcomes(handle, call.q) :
        LET kind == IF o = "transport_after" THEN "transport" ELSE o
            took == o \in {"ok", "transport_after"}
        IN  /\ conn' = ConnAfter(handle, kind)
            /\ faults' = FaultsAfter(handle, kind)
            /\ unacked' = UnackedAfter(handle, kind)
            /\ accepted' = (IF took THEN accepted + 1 ELSE accepted)
            /\ lateAcc' = (IF o = "transport_after" THEN lateAcc + 1
                           ELSE lateAcc)
            /\ nTok' = (IF took THEN nTok + 1 ELSE nTok)
            /\ queue' = (IF took
                         THEN Append(QueueAfter(handle, kind), nTok + 1)
                         ELSE QueueAfter(handle, kind))
            /\ IF o = "ok" THEN Return ELSE Raise(kind)
    /\ dead' = DeadAfter(unacked')
    /\ UNCHANGED <<variant, prev, main, handle, call, nConnect, nBody, nMqd,
                   dlq, dropped, declared, cur, okSet, stopped>>

\* ----------------------------------------------------------- start_consuming
\* The user calls start_consuming(queue, handler).
CallConsume ==
    /\ Enter("consume", "Q", 0, 0, FALSE)
    /\ cur' = NoDelivery
    /\ UNCHANGED <<variant, prev, main, handle, conn, faults, nTok, broker,
                   dead, okSet, stopped>>

\* The body of start_consuming up to the call of make_queue_durable.
ConsumeBody ==
    /\ pc = "cons_body"
    /\ nBody' = nBody + 1
    /\ stack' = Append(stack, [fn |-> "mqd", phase |-> "try1"])
    /\ pc' = "mqd_body"
    /\ UNCHANGED <<variant, prev, main, handle, conn, call, result, att1,
                   att2, nConnect, nMqd, accepted, lateAcc, faults, nTok,
                   broker, consumer, stopped>>

\* get_queue_receiver(PEEK_LOCK) (azure), basic_consume(auto_ack=False) (pika).
ConsumeSetup ==
    /\ pc = "cons_setup"
    /\ \E o \in CallOutcomes(handle) :
        /\ conn' = ConnAfter(handle, o)
        /\ faults' = FaultsAfter(handle, o)
        /\ unacked' = UnackedAfter(handle, o)
        /\ queue' = QueueAfter(handle, o)
        /\ IF o = "ok"
           THEN pc' = "cons_loop" /\ UNCHANGED <<stack, result, att1, att2>>
           ELSE Raise(o)
    /\ UNCHANGED <<variant, prev, main, handle, call, nConnect, nBody, nMqd,
                   accepted, lateAcc, nTok, dlq, dropped, declared, cur,
                   okSet, stopped>>
    /\ dead' = DeadAfter(unacked')

\* The broker state after an exception left the body of start_consuming:
\* the azure receiver is closed by its with block, and what it had locked
\* goes back to the queue.
LoopExitUnacked(U) == IF variant = "azure" THEN U \ OnLoop(U) ELSE U
LoopExitQueue(U, Q) ==
    IF variant = "azure" THEN SortedSeq(Toks(OnLoop(U))) \o Q ELSE Q

\* The broker may hand the next message to this consumer: pika's channel has
\* prefetch_count=1, so not while one is unacknowledged on it.
MayDeliver ==
    /\ Status(handle) = "open"
    /\ queue # <<>>
    /\ variant = "pika" => OnConn(unacked, handle) = {}

\* for msg in receiver (azure), channel.start_consuming() (pika): the next
\* message is delivered, or the receive fails.
ConsumeNext ==
    /\ pc = "cons_loop"
    /\ \/ /\ MayDeliver
          /\ queue' = Tail(queue)
          /\ unacked' = unacked \cup
                {[c |-> handle, tok |-> Head(queue),
                  rcv |-> IF variant = "azure" THEN "loop" ELSE "caller"]}
          /\ cur' = [NoDelivery EXCEPT !.tok = Head(queue)]
          /\ pc' = "cons_handler"
          /\ UNCHANGED <<conn, faults, stack, result, att1, att2>>
       \/ /\ \E o \in CallOutcomes(handle) \ {"ok"} :
                /\ conn' = ConnAfter(handle, o)
                /\ faults' = FaultsAfter(handle, o)
                /\ unacked' = LoopExitUnacked(UnackedAfter(handle, o))
                /\ queue' = LoopExitQueue(UnackedAfter(handle, o),
                                          QueueAfter(handle, o))
                /\ Raise(o)
          /\ UNCHANGED cur
    /\ UNCHANGED <<variant, prev, main, handle, call, nConnect, nBody, nMqd,
                   accepted, lateAcc, nTok, dlq, dropped, declared, okSet,
                   stopped>>
    /\ dead' = DeadAfter(unacked')

\* The outcomes of settling (complete, abandon, dead-letter, ack, nack) the
\* delivery [c, tok]: the broker refuses what is not locked on c.
SettleOutcomes(c, tok) ==
    IF Status(c) = "open"
    THEN (IF Locked(c, tok) THEN {"ok"} ELSE {"other"})
         \cup (IF faults < MaxFaults THEN {"transport"} ELSE {})
    ELSE CallOutcomes(c)

Entry(c, tok) == {u \in unacked : u.c = c /\ u.tok = tok}

\* self.service_callback_handler(msg): the handler returns or raises.  The
\* azure loop goes on to complete_message, or to its except clause; pika
\* calls the handler itself, and start_consuming does nothing with the
\* outcome.
ConsumeHandler ==
    /\ pc = "cons_handler"
    /\ \E h \in {"ok", "fail"} :
        /\ cur' = [cur EXCEPT !.h = h]
        /\ okSet' = (IF h = "ok" THEN okSet \cup {cur.tok} ELSE okSet)
        /\ IF variant = "azure"
           THEN /\ pc' = (IF h = "ok" THEN "cons_complete" ELSE "cons_abandon")
                /\ UNCHANGED <<stack, result, att1, att2>>
           ELSE IF h = "ok"
                THEN /\ pc' = "cons_loop"
                     /\ UNCHANGED <<stack, result, att1, att2>>
                ELSE Raise("other")
    /\ UNCHANGED <<variant, prev, main, handle, conn, call, nConnect, nBody,
                   nMqd, accepted, lateAcc, faults, nTok, broker, dead,
                   stopped>>

\* The same with a handler that always returns.
ConsumeHandlerOk ==
    /\ ConsumeHandler
    /\ cur'.h = "ok"

\* receiver.complete_message(msg) inside the loop's try block: a failure is
\* caught by the loop's except clause.
ConsumeComplete ==
    /\ pc = "cons_complete"
    /\ cur' = [cur EXCEPT !.acks = cur.acks + 1]
    /\ \E o \in SettleOutcomes(handle, cur.tok) :
        /\ conn' = ConnAfter(handle, o)
        /\ faults' = FaultsAfter(handle, o)
        /\ queue' = QueueAfter(handle, o)
        /\ IF o = "ok"
           THEN /\ unacked' = unacked \ Entry(handle, cur.tok)
                /\ pc' = "cons_loop"
           ELSE unacked' = UnackedAfter(handle, o) /\ pc' = "cons_abandon"
    /\ UNCHANGED <<variant, prev, main, handle, stack, call, result, att1,
                   att2, nConnect, nBody, nMqd, accepted, lateAcc, nTok, dlq,
                   dropped, declared, okSet, stopped>>
    /\ dead' = DeadAfter(unacked')

\* receiver.abandon_message(msg) in the loop's except clause: a failure
\* leaves the loop and the with block.
ConsumeAbandon ==
    /\ pc = "cons_abandon"
    /\ cur' = [cur EXCEPT !.rejects = cur.rejects + 1]
    /\ \E o \in SettleOutcomes(handle, cur.tok) :
        /\ conn' = ConnAfter(handle, o)
        /\ faults' = FaultsAfter(handle, o)
        /\ IF o = "ok"
           THEN /\ unacked' = unacked \ Entry(handle, cur.tok)
                /\ queue' = <<cur.tok>> \o queue
                /\ pc' = "cons_loop"
                /\ UNCHANGED <<stack, result, att1, att2>>
           ELSE /\ unacked' = LoopExitUnacked(UnackedAfter(handle, o))
                /\ queue' = LoopExitQueue(UnackedAfter(handle, o),
                                          QueueAfter(handle, o))
                /\ Raise(o)
    /\ UNCHANGED <<variant, prev, main, handle, call, nConnect, nBody, nMqd,
                   accepted, lateAcc, nTok, dlq, dropped, declared, okSet,
                   stopped>>
    /\ dead' = DeadAfter(unacked')

\* ------------------------------------------------- acknowledge and reject
\* The caller receives a message through a receiver of its own on the
\* client's connection: the delivery handle it may later pass to
\* acknowledge_message or not_acknowledge_message.
Receive ==
    /\ Status(handle) = "open"
    /\ queue # <<>>
    /\ Direct("receive", "ok", 0)
    /\ queue' = Tail(queue)
    /\ unacked' = unacked \cup
            {[c |-> handle, tok |-> Head(queue), rcv |-> "caller"]}
    /\ UNCHANGED <<variant, prev, main, handle, conn, faults, nTok, dlq,
                   dropped, declared, dead, cur, okSet, stopped>>

\* The same by a caller that holds one delivery at a time: it receives the
\* next message when it has settled, or lost, the one it held.
ReceiveOne ==
    /\ CallerHeld(unacked) = {}
    /\ Receive

\* The user calls acknowledge_message with a handle it was given.
CallAck ==
    /\ \E h \in Handles : Enter("ack", "", h.c, h.tok, FALSE)
    /\ UNCHANGED <<variant, prev, main, handle, conn, faults, nTok, broker,
                   consumer, stopped>>

\* The user calls not_acknowledge_message with a handle it was given.
CallNack ==
    /\ \E h \in Handles, rq \in BOOLEAN : Enter("nack", "", h.c, h.tok, rq)
    /\ UNCHANGED <<variant, prev, main, handle, conn, faults, nTok, broker,
                   consumer, stopped>>

\* receiver.complete_message(message) / ch.basic_ack(delivery_tag): through
\* the receiver or channel the caller passed, never through the handle.
AckBody ==
    /\ pc = "ack_body"
    /\ nBody' = nBody + 1
    /\ \E o \in SettleOutcomes(call.c, call.tok) :
        /\ conn' = ConnAfter(call.c, o)
        /\ faults' = FaultsAfter(call.c, o)
        /\ queue' = QueueAfter(call.c, o)
        /\ IF o = "ok"
           THEN unacked' = unacked \ Entry(call.c, call.tok) /\ Return
           ELSE unacked' = UnackedAfter(call.c, o) /\ Raise(o)
    /\ UNCHANGED <<variant, prev, main, handle, call, nConnect, nMqd,
                   accepted, lateAcc, nTok, dlq, dropped, declared, cur,
                   okSet, stopped>>
    /\ dead' = DeadAfter(unacked')

\* abandon_message / dead_letter_message (azure), basic_nack(requeue) (pika):
\* the queue is declared with durable=True and nothing else, so a nack
\* without requeue has no dead-letter exchange to go to.
NackBody ==
    /\ pc = "nack_body"
    /\ nBody' = nBody + 1
    /\ \E o \in SettleOutcomes(call.c, call.tok) :
        /\ conn' = ConnAfter(call.c, o)
        /\ faults' = FaultsAfter(call.c, o)
        /\ IF o = "ok"
           THEN /\ unacked' = unacked \ Entry(call.c, call.tok)
                /\ queue' = (IF call.requeue THEN <<call.tok>> \o queue
                             ELSE queue)
                /\ dlq' = (IF ~call.requeue /\ variant = "azure"
                           THEN dlq \cup {call.tok} ELSE dlq)
                /\ dropped' = (IF ~call.requeue /\ variant = "pika"
                               THEN dropped \cup {call.tok} ELSE dropped)
                /\ Return
           ELSE /\ unacked' = UnackedAfter(call.c, o)
                /\ queue' = QueueAfter(call.c, o)
                /\ UNCHANGED <<dlq, dropped>>
                /\ Raise(o)
    /\ UNCHANGED <<variant, prev, main, declared, handle, call, nConnect,
                   nMqd, accepted, lateAcc, nTok, cur, okSet, stopped>>
    /\ dead' = DeadAfter(unacked')

\* ----------------------------------------------------------------- main.py
\* main.py runs its loop on the MessageBus of message_bus.py; the loop is
\* the same over the MessageBus of old_message_bus.py, whose methods have
\* the same names.
\* msg_bus = MessageBus(); msg_bus.connect(): an exception of connect()
\* leaves main_loop.
MainConnect ==
    /\ mainpc = "start"
    /\ \E o \in ConnectOutcomes :
        /\ ConnectEffect(o)
        /\ Direct("connect", IF o = "ok" THEN "ok" ELSE ConnectError(o), 1)
        /\ mainpc' = (IF o = "ok" THEN "loop" ELSE "ended")
    /\ stopped' = FALSE
    /\ UNCHANGED <<variant, prev, counter, message_body, nSends, nTok, broker,
                   consumer>>

\* send_json_message up to its call of msg_bus.send: the body is built from
\* the counter as it is now.
SendJsonMessage ==
    /\ mainpc = "loop"
    /\ counter <= MaxSends
    /\ message_body' = JsonDumps(FormatId(counter))
    /\ Enter("send", "Q", 0, 0, FALSE)
    /\ nSends' = nSends + 1
    /\ mainpc' = "sending"
    /\ UNCHANGED <<variant, prev, counter, handle, conn, faults, nTok, broker,
                   consumer, stopped>>

\* MainLoopNext with the counter incremented twice for a send that returned
\* (counter += 1 both in send_json_message and in main_loop).
MainLoopNextTwice ==
    /\ mainpc = "sending"
    /\ pc = "done"
    /\ counter' = (IF result = "ok" THEN counter + 2 ELSE counter)
    /\ mainpc' = (IF result = "ok" THEN "loop" ELSE "ended")
    /\ pc' = "idle"
    /\ call' = NoCall
    /\ result' = "none"
    /\ att1' = "none"
    /\ att2' = "none"
    /\ ResetCounters(0)
    /\ prev' = NoPrev
    /\ UNCHANGED <<variant, message_body, nSends, handle, conn, stack, faults,
                   nTok, broker, consumer, stopped>>

\* msg_bus.send has returned: the print, counter += 1 and the sleep; or it
\* has raised, and the exception leaves send_json_message and main_loop.
MainLoopNext ==
    /\ mainpc = "sending"
    /\ pc = "done"
    /\ counter' = (IF result = "ok" THEN counter + 1 ELSE counter)
    /\ mainpc' = (IF result = "ok" THEN "loop" ELSE "ended")
    /\ pc' = "idle"
    /\ call' = NoCall
    /\ result' = "none"
    /\ att1' = "none"
    /\ att2' = "none"
    /\ ResetCounters(0)
    /\ prev' = NoPrev
    /\ UNCHANGED <<variant, message_body, nSends, handle, conn, stack, faults,
                   nTok, broker, consumer, stopped>>

\* ---------------------------------------------------------------- caller
\* The call has returned or raised, and the caller goes on: what the call
\* left behind for it is dropped.
Resume ==
    /\ pc = "done"
    /\ mainpc # "sending"
    /\ pc' = "idle"
    /\ call' = NoCall
    /\ result' = "none"
    /\ att1' = "none"
    /\ att2' = "none"
    /\ ResetCounters(0)
    /\ cur' = NoDelivery
    /\ prev' = (IF call.fn = "mqd" /\ result = "ok"
                THEN [fn |-> "mqd", q |-> call.q] ELSE NoPrev)
    /\ UNCHANGED <<variant, main, handle, conn, stack, faults, nTok, broker,
                   dead, okSet, stopped>>

\* ------------------------------------------------------------ specification
Next ==
    \/ UserConnect
    \/ Reconnect
    \/ Stop
    \/ CallMakeQueueDurable
    \/ CallMakeQueueDurableEmpty
    \/ CallSend
    \/ SendBody
    \/ MakeQueueDurable
    \/ SendPublish
    \/ CallConsume
    \/ ConsumeBody
    \/ ConsumeSetup
    \/ ConsumeNext
    \/ ConsumeHandler
    \/ ConsumeComplete
    \/ ConsumeAbandon
    \/ Receive
    \/ CallAck
    \/ CallNack
    \/ AckBody
    \/ NackBody
    \/ MainConnect
    \/ SendJsonMessage
    \/ MainLoopNext
    \/ Resume

Spec == Init /\ [][Next]_vars

\* The producer: connect, send and stop.
SendNext ==
    \/ UserConnect
    \/ Reconnect
    \/ Stop
    \/ CallSend
    \/ SendBody
    \/ MakeQueueDurable
    \/ SendPublish
    \/ Resume

SendSpec == Init /\ [][SendNext]_vars

\* The caller of the wrapped operations other than start_consuming, which
\* receives through a receiver of its own, one delivery at a time.
WrappedNext ==
    \/ UserConnect
    \/ Reconnect
    \/ CallMakeQueueDurable
    \/ CallSend
    \/ SendBody
    \/ MakeQueueDurable
    \/ SendPublish
    \/ ReceiveOne
    \/ CallAck
    \/ CallNack
    \/ AckBody
    \/ NackBody
    \/ Resume

WrappedSpec == Init /\ [][WrappedNext]_vars

\* The caller that connects, declares queues and stops.
DeclareNext ==
    \/ UserConnect
    \/ Reconnect
    \/ Stop
    \/ CallMakeQueueDurable
    \/ CallMakeQueueDurableEmpty
    \/ MakeQueueDurable
    \/ Resume

DeclareSpec == Init /\ [][DeclareNext]_vars

\* The producer program main.py.
MainNext ==
    \/ MainConnect
    \/ SendJsonMessage
    \/ MainLoopNext
    \/ Reconnect
    \/ SendBody
    \/ MakeQueueDurable
    \/ SendPublish
    \/ Resume

MainSpec == Init /\ [][MainNext]_vars

\* The producer program, and the same client consuming with a handler that
\* always returns.
FifoNext ==
    \/ MainConnect
    \/ SendJsonMessage
    \/ MainLoopNext
    \/ Reconnect
    \/ SendBody
    \/ MakeQueueDurable
    \/ SendPublish
    \/ CallConsume
    \/ ConsumeBody
    \/ ConsumeSetup
    \/ ConsumeNext
    \/ ConsumeHandlerOk
    \/ ConsumeComplete
    \/ ConsumeAbandon
    \/ Resume

FifoSpec == Init /\ [][FifoNext]_vars

\* The consumer: other producers have left up to MaxPreload messages on the
\* queue before this client is constructed.
ConsumerInit ==
    /\ variant \in Variants
    /\ handle = 0
    /\ conn = [c \in ConnIds |-> "unused"]
    /\ stack = <<>>
    /\ pc = "idle"
    /\ call = NoCall
    /\ result = "none"
    /\ att1 = "none"
    /\ att2 = "none"
    /\ nConnect = 0
    /\ nBody = 0
    /\ nMqd = 0
    /\ accepted = 0
    /\ lateAcc = 0
    /\ faults = 0
    /\ \E n \in 0..MaxPreload : nTok = n /\ queue = [i \in 1..n |-> i]
    /\ unacked = {}
    /\ dlq = {}
    /\ dropped = {}
    /\ declared =
            [NoQueues EXCEPT !.names = IF queue = <<>> THEN {} ELSE {"Q"}]
    /\ dead = {}
    /\ cur = NoDelivery
    /\ okSet = {}
    /\ stopped = FALSE
    /\ prev = NoPrev
    /\ counter = 1
    /\ mainpc = "start"
    /\ message_body = NoBody
    /\ nSends = 0

ConsumerNext ==
    \/ UserConnect
    \/ Reconnect
    \/ MakeQueueDurable
    \/ CallConsume
    \/ ConsumeBody
    \/ ConsumeSetup
    \/ ConsumeNext
    \/ ConsumeHandler
    \/ ConsumeComplete
    \/ ConsumeAbandon
    \/ Receive
    \/ CallAck
    \/ CallNack
    \/ AckBody
    \/ NackBody
    \/ Resume

ConsumerSpec == ConsumerInit /\ [][ConsumerNext]_vars

\* The consumer that leaves every delivery to start_consuming: no receiver
\* of its own, no acknowledge_message, no not_acknowledge_message.
LoopNext ==
    \/ UserConnect
    \/ Reconnect
    \/ MakeQueueDurable
    \/ CallConsume
    \/ ConsumeBody
    \/ ConsumeSetup
    \/ ConsumeNext
    \/ ConsumeHandler
    \/ ConsumeComplete
    \/ ConsumeAbandon
    \/ Resume

LoopSpec == ConsumerInit /\ [][LoopNext]_vars

\* ------------------------------------------------------------------ claims
\* A send call has returned to its caller, normally or by raising.
SendDone == pc = "done" /\ call.fn = "send"

\* C1: no send call performs more than one connect() or more than two
\* attempts of its body, and a send whose first attempt failed at the
\* transport has reconnected exactly once and, when it retried, entered its
\* body exactly twice.
C1Original ==
    call.fn = "send" =>
        /\ nConnect <= 1
        /\ nBody <= 2
        /\ (pc = "done" /\ att1 = "transport") =>
                (nConnect = 1 /\ (att2 # "none" => nBody = 2))

\* C2, as claimed: a send whose first attempt failed at the transport and
\* whose retry succeeded returns normally and has put exactly one copy of
\* its message on the queue.
C2Original ==
    (SendDone /\ att1 = "transport" /\ att2 = "ok") =>
        (result = "ok" /\ accepted = 1)

\* C2, amended: such a send returns normally and has put on the queue one
\* copy by its retry and one more copy for a first attempt whose
\* publish the broker accepted before the attempt failed: one or two copies,
\* never zero, never three.
C2Amended ==
    (SendDone /\ att1 = "transport" /\ att2 = "ok") =>
        (result = "ok" /\ lateAcc <= 1 /\ accepted = 1 + lateAcc)

\* C2's case with the duplicate: the first attempt failed after the broker
\* had accepted the publish, the retry succeeded, two copies are queued.
C2Witness ==
    SendDone /\ att1 = "transport" /\ att2 = "ok" /\ accepted = 2

\* C3, as claimed: a send whose first attempt and retry both failed at the
\* transport raises to its caller and has put no copy of its message on the
\* queue.
C3Original ==
    (SendDone /\ att1 = "transport" /\ att2 = "transport") =>
        (result # "ok" /\ accepted = 0)

\* C3, amended: such a send raises the retry's transport error to its
\* caller, and the only copies of its message on the queue (at most two) are
\* those of a publish that the broker accepted before the attempt failed:
\* none when both attempts failed before the broker accepted anything.
C3Amended ==
    (SendDone /\ att1 = "transport" /\ att2 = "transport") =>
        (result = "transport" /\ accepted = lateAcc /\ accepted <= 2)

\* C3's case: both attempts failed at the transport, each after the broker
\* had accepted its publish, and the caller got the error.
C3Witness ==
    SendDone /\ att1 = "transport" /\ att2 = "transport" /\ accepted = 2

\* C4: whenever send returns normally the message has been published (and
\* so, whenever it has not been published, send has raised).
C4Original == (SendDone /\ result = "ok") => accepted >= 1

\* start_consuming has finished with the delivery recorded in cur.
DeliveryOver ==
    cur.tok # 0 /\ pc \notin {"cons_handler", "cons_complete", "cons_abandon"}

InQueue(tok) == \E i \in 1..Len(queue) : queue[i] = tok

\* C5: a delivery on which the handler returned successfully got exactly one
\* acknowledgment and no reject, its message is off the queue and no longer
\* outstanding, and no message is handed to the handler again after the
\* handler succeeded on it.
C5Original ==
    /\ (DeliveryOver /\ cur.h = "ok") =>
            /\ cur.acks = 1
            /\ cur.rejects = 0
            /\ ~InQueue(cur.tok)
            /\ cur.tok \notin Toks(unacked)
    /\ (pc = "cons_handler" /\ cur.h = "none") => cur.tok \notin okSet

\* C6: a delivery on which the handler raised got exactly one reject and no
\* acknowledgment, and its message is back on the queue.
C6Original ==
    (DeliveryOver /\ cur.h = "fail") =>
        /\ cur.rejects = 1
        /\ cur.acks = 0
        /\ InQueue(cur.tok)

\* C7: acknowledge_message and not_acknowledge_message, called with a
\* delivery handle of a connection that connect() has since superseded,
\* end with an error.
C7Original ==
    (pc = "done" /\ call.fn \in {"ack", "nack"} /\ call.stale) =>
        result # "ok"

\* C8: every stop() returns without an error, and a stop() after a stop()
\* leaves the client and the connections as the first one left them.
C8Original ==
    [][Stop => (result' = "ok" /\
                (stopped => (conn' = conn /\ handle' = handle)))]_vars

\* C9: a send made after stop() and before the user's next connect() raises,
\* publishes nothing and makes no connect() of its own.
C9Original ==
    (SendDone /\ stopped) =>
        (result # "ok" /\ accepted = 0 /\ nConnect = 0)

\* C10: at most one connection of the client is open.
C10Original == Cardinality(OpenConns) <= 1

\* An exception of the transport kind leaves the receive loop of
\* start_consuming: the receive itself failed, or (azure) the abandon in the
\* loop's except clause did.
LoopFault ==
    /\ pc \in {"cons_loop", "cons_abandon"}
    /\ pc' \in {"connect", "done"}
    /\ (IF stack[1].phase = "try1" THEN att1' ELSE att2') = "transport"

\* The connect() of start_consuming's own wrapper has failed.
ConsumeConnectFailed ==
    /\ pc = "connect"
    /\ call.fn = "consume"
    /\ Len(stack) = 1
    /\ (handle' = handle \/ conn'[handle'] # "open")

\* C11, as claimed: every transport failure that leaves the receive loop is
\* followed by a connect(), and a failure of that connect() ends
\* start_consuming with an error.
C11Original ==
    [][/\ LoopFault => pc' = "connect"
       /\ ConsumeConnectFailed => (pc' = "done" /\ result' # "ok")]_vars

\* C11, amended: a transport failure that leaves the receive loop of the
\* first attempt of start_consuming is followed by exactly one connect(); a
\* failure of that connect() ends start_consuming with an error and with no
\* retry; a transport failure that leaves the receive loop of the retry is
\* followed by no connect() and ends start_consuming with that error.
C11Amended ==
    [][/\ (LoopFault /\ stack[1].phase = "try1") =>
                (pc' = "connect" /\ stack'[1].phase = "except")
       /\ (LoopFault /\ stack[1].phase = "try2") =>
                (pc' = "done" /\ result' = "transport"
                 /\ nConnect' = nConnect)
       /\ (pc = "connect" /\ call.fn = "consume" /\ Len(stack) = 1) =>
                (pc' # "connect" /\ nConnect' = nConnect + 1)
       /\ ConsumeConnectFailed =>
                (pc' = "done" /\ result' # "ok" /\ stack' = <<>>
                 /\ nBody' = nBody)]_vars

\* C11's case: the receive loop had delivered a message, then failed at the
\* transport, the one connect() failed and start_consuming raised.
C11Witness ==
    /\ pc = "done"
    /\ call.fn = "consume"
    /\ cur.tok # 0
    /\ att1 = "transport"
    /\ att2 = "none"
    /\ nConnect = 1
    /\ result # "ok"

\* C12: the wrapper of send, start_consuming, acknowledge_message or
\* not_acknowledge_message calls connect() (and then retries) only when the
\* first attempt failed at the transport: after any other failure the call
\* never reaches connect().
C12Original ==
    (pc = "connect" /\ Len(stack) = 1
        /\ call.fn \in {"send", "consume", "ack", "nack"}) =>
        att1 = "transport"

\* C13: a call of make_queue_durable, send, acknowledge_message or
\* not_acknowledge_message makes at most 3 calls of connect(), enters its
\* own body at most twice and the body of make_queue_durable at most 4
\* times, however often the transport fails; and a call whose attempts all
\* failed has ended by raising.
C13Theorem ==
    call.fn \in {"mqd", "send", "ack", "nack"} =>
        /\ nConnect <= 3
        /\ nBody <= 2
        /\ nMqd <= 4
        /\ (pc = "done" /\ att1 # "ok" /\ att2 # "ok") => result # "ok"

\* C13's case: a send in which every attempt of make_queue_durable but the
\* last failed at the transport: three connect() calls, four declarations.
C13Witness ==
    /\ pc = "done"
    /\ call.fn = "send"
    /\ nConnect = 3
    /\ nBody = 2
    /\ nMqd = 4

\* A call of make_queue_durable is in progress.
InDeclare == call.fn = "mqd" /\ pc \notin {"idle", "done"}

\* The call in progress repeats the call before it, which returned normally.
SecondDeclare == InDeclare /\ prev.fn = "mqd" /\ prev.q = call.q

\* The step changes neither the broker nor the client's connection.
NoEffect ==
    /\ handle' = handle
    /\ conn' = conn
    /\ declared' = declared
    /\ queue' = queue
    /\ unacked' = unacked

C15Original ==
    (pc = "done" /\ call.fn = "nack" /\ result = "ok") =>
        /\ call.tok \notin Toks(unacked)
        /\ call.tok \notin dropped
        /\ IF call.requeue
           THEN InQueue(call.tok) /\ call.tok \notin dlq
           ELSE call.tok \in dlq /\ ~InQueue(call.tok)

\* start_consuming waits in its receive loop on an open connection, and the
\* broker has nothing it may deliver to it.
Waiting == pc = "cons_loop" /\ Status(handle) = "open" /\ ~MayDeliver

\* C16: the handler is invoked on the messages in the order in which they
\* were sent (never on a message sent before one it was already invoked
\* on), and once three sends have returned, a consumer with an
\* always-succeeding handler that has nothing left to wait for has had its
\* handler invoked on every message sent.
C16Original ==
    /\ (pc = "cons_handler" /\ cur.h = "none") =>
            \A t \in okSet : t <= cur.tok
    /\ (Waiting /\ counter > 3) => okSet = 1..nTok

\* C17: in the pika variant the client holds at most one message that was
\* delivered and is not acknowledged: at most one on every channel (the
\* prefetch of one that connect() sets), and at most one over all channels.
C17Original ==
    variant = "pika" =>
        /\ \A c \in ConnIds : Cardinality(OnConn(unacked, c)) <= 1
        /\ Cardinality(unacked) <= 1

\* C18: the n-th send call of main_loop carries the id "object n" and is
\* made with the counter at n; between two sends the counter is one more
\* than the number of sends made, so that the ids increase by one without
\* gaps; and after a send that raised, the loop has ended with the counter
\* as it was when that send was called.
C18Theorem ==
    /\ mainpc = "sending" =>
            /\ message_body = JsonDumps(FormatId(nSends))
            /\ counter = nSends
            /\ nSends >= 1
    /\ mainpc \in {"start", "loop"} => counter = nSends + 1
    /\ mainpc = "ended" =>
            IF nSends = 0 THEN counter = 1
            ELSE /\ counter = nSends
                 /\ message_body = JsonDumps(FormatId(counter))

\* C18's case: two sends returned, the third raised and ended the loop with
\* the counter at 3.
C18Witness ==
    /\ mainpc = "ended"
    /\ nSends = 3
    /\ counter = 3
    /\ message_body = JsonDumps(FormatId(3))

\* The step is a connect() that raises: one called by the user, or the one
\* in the wrapper's except clause.
ConnectRaised ==
    \/ pc = "idle" /\ pc' = "done" /\ call'.fn = "connect" /\ result' # "ok"
    \/ pc = "connect" /\ pc' \in {"connect", "done"}

\* C19: a connect() that raises leaves the client's handle
\* (servicebus_client, channel) as it was before the call.
C19Original == [][ConnectRaised => handle' = handle]_vars

\* C20: in the azure receive loop a delivery gets at most one settlement
\* call (not complete_message and abandon_message both), abandon_message is
\* called only for a delivery whose handler raised, and an exception of the
\* handler is caught in the loop (it leads to abandon_message, not out of
\* the loop).
C20Original ==
    variant = "azure" =>
        /\ cur.acks + cur.rejects <= 1
        /\ cur.rejects > 0 => cur.h = "fail"
        /\ (cur.h = "fail" /\ cur.rejects = 0) => pc = "cons_abandon"

====
